---- MODULE Spec2Model ----
(***************************************************************************)
(* Ledger engine of the blockchain node: the bolt-backed block store       *)
(* (bucket "blocks" with the tip key "l"), the UTXO index (bucket          *)
(* "chainstate"), mining, and the signing / verification pipeline.         *)
(*                                                                         *)
(* Representation of Go values.                                            *)
(*  - A byte slice is a tuple.  Nil (the nil and the empty slice, which    *)
(*    gob does not distinguish and which the code only tests with len)     *)
(*    is <<>>.  A digest or key is a tagged pair <<tag, preimage>>, so a   *)
(*    hash function is injective (no collisions).  A public-key hash is a  *)
(*    one-element slice, an address payload is                             *)
(*    <<version>> \o pubKeyHash \o checksum.                               *)
(*  - A Go map is a function; a struct is a record with the Go field       *)
(*    names; slice indices stored in data are Go's (0-based).              *)
(*  - A bolt bucket is a function from keys to values; each bolt           *)
(*    transaction (db.Update / db.View) is one atomic step.                *)
(***************************************************************************)
EXTENDS Integers, Sequences, FiniteSets, TLC

(***************************************************************************)
(* Bounds of the model.                                                    *)
(***************************************************************************)
NumWallets == 2

MaxCoinbase == 2

MaxAdds == 1

MaxHeight == 2

MaxTime == 1

HashBits == 25

MaxHandlers == 2

MaxConns == 2

MaxStarts == 2

MaxWalks == 2

(***************************************************************************)
(* Program constants.                                                      *)
(***************************************************************************)
subsidy == 10

targetBits == 24

addressChecksumLen == 4

version == 0

TransactionCoinbaseVInVOutDefault == -1

TransactionCoinbaseVInTxIDDefault == 0

Nil == <<>>

tipDbKey == <<"key", "l">>

genesisCoinbaseData == <<"data", 0>>

(***************************************************************************)
(* Go maps.                                                                *)
(***************************************************************************)
EmptyMap == [k \in {} |-> Nil]

HasKey(m, k) == k \in DOMAIN m

MapPut(m, k, v) == [x \in (DOMAIN m) \cup {k} |-> IF x = k THEN v ELSE m[x]]

\* bucket.Get / a map read: the zero value when the key is absent
MapGet(m, k, zero) == IF k \in DOMAIN m THEN m[k] ELSE zero

(***************************************************************************)
(* Hashing, keys and addresses.                                            *)
(***************************************************************************)
sha256(data) == <<"sha256", data>>

ripemd160(data) == <<"ripemd160", data>>

EncodeToString(bytes) == <<"hex", bytes>>

DecodeString(str) == str[2]

Wallets == 1..NumWallets

\* Wallet.PublicKey of the key pair k (newKeyPair): X || Y of the point
PublicKey(k) == <<"pub", k>>

HashPubKey(pubKey) == << ripemd160(sha256(pubKey)) >>

checksum(payload) ==
    [i \in 1..addressChecksumLen |-> <<"byte", i, sha256(sha256(payload))>>]

Base58Encode(input) == <<"base58", input>>

Base58Decode(input) == input[2]

GetAddress(k) ==
    LET pubKeyHash == HashPubKey(PublicKey(k))
        versionedPayload == << <<"byte", version>> >> \o pubKeyHash
        fullPayload == versionedPayload \o checksum(versionedPayload)
    IN  Base58Encode(fullPayload)

(***************************************************************************)
(* Transaction outputs.                                                    *)
(***************************************************************************)
Lock(address) ==
    LET pubKeyHash == Base58Decode(address)
    IN  SubSeq(pubKeyHash, 2, Len(pubKeyHash) - addressChecksumLen)

IsLockedWithKey(out, pubKeyHash) == out.PubKeyHash = pubKeyHash

NewTXOutput(value, address) == [Value |-> value, PubKeyHash |-> Lock(address)]

(***************************************************************************)
(* Transactions.                                                           *)
(***************************************************************************)
IsCoinbase(tx) ==
    /\ Len(tx.VIn) = 1
    /\ Len(tx.VIn[1].TxID) = TransactionCoinbaseVInTxIDDefault
    /\ tx.VIn[1].VOut = TransactionCoinbaseVInVOutDefault

\* gob encoding of the struct fields in declaration order
GobInput(in) == <<in.TxID, in.VOut, in.Signature, in.PubKey>>

GobOutput(out) == <<out.Value, out.PubKeyHash>>

GobTransaction(tx) ==
    << tx.ID,
       [i \in 1..Len(tx.VIn) |-> GobInput(tx.VIn[i])],
       [i \in 1..Len(tx.VOut) |-> GobOutput(tx.VOut[i])] >>

UngobTransaction(g) ==
    [ID   |-> g[1],
     VIn  |-> [i \in 1..Len(g[2]) |->
                 [TxID |-> g[2][i][1], VOut |-> g[2][i][2],
                  Signature |-> g[2][i][3], PubKey |-> g[2][i][4]]],
     VOut |-> [i \in 1..Len(g[3]) |->
                 [Value |-> g[3][i][1], PubKeyHash |-> g[3][i][2]]]]

SerializeTransaction(tx) == <<"gob.Transaction", GobTransaction(tx)>>

DeserializeTransaction(data) == UngobTransaction(data[2])

Hash(tx) == sha256(SerializeTransaction([tx EXCEPT !.ID = Nil]))

TrimmedCopy(tx) ==
    [ID   |-> tx.ID,
     VIn  |-> [i \in 1..Len(tx.VIn) |->
                 [TxID |-> tx.VIn[i].TxID, VOut |-> tx.VIn[i].VOut,
                  Signature |-> Nil, PubKey |-> Nil]],
     VOut |-> [i \in 1..Len(tx.VOut) |->
                 [Value |-> tx.VOut[i].Value,
                  PubKeyHash |-> tx.VOut[i].PubKeyHash]]]

NewCoinbaseTX(to, data) ==
    LET txIn == [TxID |-> Nil, VOut |-> TransactionCoinbaseVInVOutDefault,
                 Signature |-> Nil, PubKey |-> data]
        tx == [ID |-> Nil, VIn |-> <<txIn>>, VOut |-> <<NewTXOutput(subsidy, to)>>]
    IN  [tx EXCEPT !.ID = Hash(tx)]

(***************************************************************************)
(* ECDSA over P-256.  A signature made with private key k over data is the *)
(* pair (k, data); it verifies under a public key exactly when that key is *)
(* k's and the data is the signed data.  Signer 0 is nobody's key.         *)
(* ecdsa.Sign draws its nonce from rand.Reader, so r and s are any two     *)
(* scalars below the group order: r.Bytes() and s.Bytes() are ScalarBytes  *)
(* long, or shorter when the scalar has leading zero bytes.                *)
(***************************************************************************)
ScalarBytes == 32

FullLengths == <<ScalarBytes, ScalarBytes>>

\* the lengths of r.Bytes() and s.Bytes() one signature can have (scalars
\* with two or more leading zero bytes left out)
SignatureLengths ==
    {FullLengths, <<ScalarBytes - 1, ScalarBytes>>, <<ScalarBytes, ScalarBytes - 1>>}

\* append(r.Bytes(), s.Bytes()...): the bytes of r, then the bytes of s
JoinSignature(rs, lens) == <<"sig", rs[2], lens[1], lens[2]>>

\* Signature[:sigLen/2] and Signature[sigLen/2:] read back as r and s: the
\* pair that was joined when the cut falls at the end of r, two other
\* scalars (a pair that verifies nothing) when it does not
SplitSignature(signature) ==
    IF /\ Len(signature) = 4
       /\ (signature[3] + signature[4]) \div 2 = signature[3]
    THEN <<"sig", signature[2]>>
    ELSE Nil

\* append(X.Bytes(), Y.Bytes()...) of the point of key k: the bytes of X,
\* then the bytes of Y, each without its leading zero bytes
JoinPublicKey(k, lens) == <<"pub", k, lens[1], lens[2]>>

\* PubKey[:keyLen/2] and PubKey[keyLen/2:] read back as X and Y: the point
\* of the key when the cut falls at the end of X, another pair of numbers
\* when it does not
SplitPublicKey(pubKey) ==
    IF (pubKey[3] + pubKey[4]) \div 2 = pubKey[3]
    THEN <<"point", pubKey[2]>>
    ELSE Nil

EcdsaSign(privateKey, data) == <<"sig", <<privateKey, data>>>>

EcdsaVerify(pubKey, data, signature) ==
    /\ Len(signature) = 2
    /\ Len(pubKey) = 2
    /\ PublicKey(signature[2][1]) = pubKey
    /\ signature[2][2] = data

\* fmt.Sprintf("%x\n", txCopy): the fields of the struct, in order
FormatX(txCopy) == <<"%x\n", GobTransaction(txCopy)>>

ZeroTransaction == [ID |-> Nil, VIn |-> <<>>, VOut |-> <<>>]

validatePrevTXs(tx, prevTXs) ==
    \A i \in 1..Len(tx.VIn) :
        MapGet(prevTXs, EncodeToString(tx.VIn[i].TxID), ZeroTransaction).ID # Nil

\* prevTx.VOut[vin.VOut] is inside the slice
OutputInRange(tx, i, prevTXs) ==
    LET prevTx == MapGet(prevTXs, EncodeToString(tx.VIn[i].TxID), ZeroTransaction)
    IN  tx.VIn[i].VOut >= 0 /\ tx.VIn[i].VOut < Len(prevTx.VOut)

\* the message of input i: the trimmed copy whose input i carries the
\* referenced output's PubKeyHash in PubKey, every other input carrying nil
DataToSign(tx, i, prevTXs) ==
    LET prevTx == prevTXs[EncodeToString(tx.VIn[i].TxID)]
        txCopy == TrimmedCopy(tx)
    IN  FormatX([txCopy EXCEPT !.VIn[i].PubKey =
                     prevTx.VOut[tx.VIn[i].VOut + 1].PubKeyHash])

\* "ok" with the signed transaction, or "panic"
Sign(tx, privateKey, prevTXs, lens) ==
    IF IsCoinbase(tx) THEN [st |-> "ok", tx |-> tx]
    ELSE IF ~validatePrevTXs(tx, prevTXs) THEN [st |-> "panic", tx |-> tx]
    ELSE IF \E i \in 1..Len(tx.VIn) : ~OutputInRange(tx, i, prevTXs)
         THEN [st |-> "panic", tx |-> tx]
    ELSE [st |-> "ok",
          tx |-> [tx EXCEPT !.VIn = [i \in 1..Len(tx.VIn) |->
                     [tx.VIn[i] EXCEPT !.Signature =
                         JoinSignature(
                             EcdsaSign(privateKey, DataToSign(tx, i, prevTXs)),
                             lens[i])]]]]

RECURSIVE VerifyFrom(_, _, _)
VerifyFrom(tx, prevTXs, i) ==
    IF i > Len(tx.VIn) THEN "true"
    ELSE IF ~OutputInRange(tx, i, prevTXs) THEN "panic"
    ELSE IF ~EcdsaVerify(tx.VIn[i].PubKey, DataToSign(tx, i, prevTXs),
                         SplitSignature(tx.VIn[i].Signature)) THEN "false"
    ELSE VerifyFrom(tx, prevTXs, i + 1)

\* "true", "false" or "panic"
Verify(tx, prevTXs) ==
    IF IsCoinbase(tx) THEN "true"
    ELSE IF ~validatePrevTXs(tx, prevTXs) THEN "panic"
    ELSE VerifyFrom(tx, prevTXs, 1)

(***************************************************************************)
(* Blocks and proof of work.                                               *)
(***************************************************************************)
SerializeBlock(b) ==
    <<"gob.Block", b.Timestamp,
      [i \in 1..Len(b.Transactions) |-> GobTransaction(b.Transactions[i])],
      b.PrevBlockHash, b.Hash, b.Nonce, b.Height>>

DeserializeBlock(d) ==
    [Timestamp     |-> d[2],
     Transactions  |-> [i \in 1..Len(d[3]) |-> UngobTransaction(d[3][i])],
     PrevBlockHash |-> d[4],
     Hash          |-> d[5],
     Nonce         |-> d[6],
     Height        |-> d[7]]

\* The Merkle reduction as specified: hash the leaves, then combine adjacent
\* pairs level by level, duplicating the last node of a level of odd length.
\* NewMerkleTree as written tests the outer index in its inner loop and
\* indexes past the slice for every non-empty input, so no block could be
\* sealed with it; the ledger is modelled with the specified reduction, and
\* the proof of work (not part of the sources) likewise.
RECURSIVE MerkleLevel(_)
MerkleLevel(nodes) ==
    IF Len(nodes) = 1 THEN nodes[1]
    ELSE LET even == IF Len(nodes) % 2 = 0 THEN nodes
                     ELSE Append(nodes, nodes[Len(nodes)])
         IN  MerkleLevel([i \in 1..(Len(even) \div 2) |->
                             sha256(<<"node", even[2 * i - 1], even[2 * i]>>)])

MerkleRoot(data) == MerkleLevel([i \in 1..Len(data) |-> sha256(data[i])])

\* NewMerkleNode: a leaf hashes its datum, an inner node the data of its two
\* children
NewMerkleLeaf(datum) == sha256(datum)

NewMerkleNode(left, right) == sha256(<<"node", left, right>>)

\* the inner loop of NewMerkleTree as written: it runs while i < len(nodes),
\* j stepping by two; reading nodes[j] or nodes[j+1] past the slice is the
\* runtime panic "index out of range"
RECURSIVE MerkleInnerLoop(_, _, _, _)
MerkleInnerLoop(nodes, i, j, newLevel) ==
    IF ~(i < Len(nodes)) THEN [st |-> "ok", nodes |-> newLevel]
    ELSE IF j + 1 >= Len(nodes) THEN [st |-> "panic", nodes |-> newLevel]
    ELSE MerkleInnerLoop(nodes, i, j + 2,
             Append(newLevel, NewMerkleNode(nodes[j + 1], nodes[j + 2])))

\* the outer loop: l/2 rounds, each replacing nodes by the new level
RECURSIVE MerkleOuterLoop(_, _, _)
MerkleOuterLoop(nodes, i, l) ==
    IF ~(i < l \div 2) THEN [st |-> "ok", nodes |-> nodes]
    ELSE IF MerkleInnerLoop(nodes, i, 0, <<>>).st = "panic"
         THEN [st |-> "panic", nodes |-> nodes]
    ELSE MerkleOuterLoop(MerkleInnerLoop(nodes, i, 0, <<>>).nodes, i + 1, l)

MerkleRootOf(looped) ==
    [st   |-> looped.st,
     root |-> IF looped.st = "ok" /\ Len(looped.nodes) > 0
              THEN looped.nodes[1] ELSE Nil]

\* NewMerkleTree as written: st "ok" with the Data of the root node (Nil
\* for the tree without a root), or "panic"
NewMerkleTree(data) ==
    MerkleRootOf(
        MerkleOuterLoop(
            [n \in 1..(Len(data) + (Len(data) % 2)) |->
                NewMerkleLeaf(data[IF n > Len(data) THEN Len(data) ELSE n])],
            0, Len(data) + (Len(data) % 2)))

HashTransactions(b) ==
    MerkleRoot([i \in 1..Len(b.Transactions) |->
                   SerializeTransaction(b.Transactions[i])])

\* prev_hash || HashTransactions() || timestamp || target_bits || nonce
prepareData(b, nonce) ==
    <<b.PrevBlockHash, HashTransactions(b), b.Timestamp, targetBits, nonce>>

\* The digest read as a big-endian integer of HashBits bits.
HashInt(data) == ((data[3] + data[5]) * 2^targetBits) % 2^HashBits

target == 2^(HashBits - targetBits)

maxNonce == 2^(HashBits - targetBits)

\* the nonce search from 0 upwards; first nonce whose digest is below target
Run(b) ==
    LET ok == {n \in 0..maxNonce : HashInt(prepareData(b, n)) < target}
        nonce == CHOOSE n \in ok : \A m \in ok : n <= m
    IN  [Nonce |-> nonce, Hash |-> sha256(prepareData(b, nonce))]

Validate(b) == HashInt(prepareData(b, b.Nonce)) < target

NewBlock(transactions, prevBlockHash, height, now) ==
    LET blk == [Timestamp |-> now, Transactions |-> transactions,
                PrevBlockHash |-> prevBlockHash, Hash |-> Nil,
                Nonce |-> 0, Height |-> height]
        pow == Run(blk)
    IN  [blk EXCEPT !.Hash = pow.Hash, !.Nonce = pow.Nonce]

NewGenesisBlock(coinbase, now) == NewBlock(<<coinbase>>, Nil, 0, now)

(***************************************************************************)
(* The chain walk (BlockchainIterator.Next in the loop of GetBlockHashes,  *)
(* FindTransaction and FindUTXO): read the block under the cursor, move    *)
(* the cursor to its PrevBlockHash, stop after a block with an empty       *)
(* PrevBlockHash.  st is "ok" when the walk ends at such a block, "panic"  *)
(* when the cursor names no stored block (DeserializeBlock fails), "loop"  *)
(* when the cursor returns to a hash already read (the walk never ends).   *)
(* blocks are the blocks read, in order.                                   *)
(***************************************************************************)
RECURSIVE IterateFrom(_, _, _)
IterateFrom(kv, currentHash, seen) ==
    IF currentHash \in seen THEN [st |-> "loop", blocks |-> <<>>]
    ELSE IF ~HasKey(kv, currentHash) THEN [st |-> "panic", blocks |-> <<>>]
    ELSE LET b == DeserializeBlock(kv[currentHash])
         IN  IF Len(b.PrevBlockHash) = 0 THEN [st |-> "ok", blocks |-> <<b>>]
             ELSE LET rest == IterateFrom(kv, b.PrevBlockHash,
                                          seen \cup {currentHash})
                  IN  [st |-> rest.st, blocks |-> <<b>> \o rest.blocks]

Iterate(kv, tip) == IterateFrom(kv, tip, {})

RECURSIVE Flatten(_)
Flatten(seqs) == IF seqs = <<>> THEN <<>> ELSE Head(seqs) \o Flatten(Tail(seqs))

\* the transactions met by the walk, in the order the loops visit them
WalkTransactions(kv, tip) ==
    LET w == Iterate(kv, tip)
    IN  Flatten([i \in 1..Len(w.blocks) |-> w.blocks[i].Transactions])

GetBlockHashes(kv, tip) ==
    LET w == Iterate(kv, tip)
    IN  [st |-> w.st, hashes |-> [i \in 1..Len(w.blocks) |-> w.blocks[i].Hash]]

\* st: "ok" with the first transaction whose ID is id, "notfound" when the
\* walk ended without one, "panic" / "loop" when the walk failed before one
FindTransaction(kv, tip, id) ==
    LET w == Iterate(kv, tip)
        txs == WalkTransactions(kv, tip)
        hits == {i \in 1..Len(txs) : txs[i].ID = id}
    IN  IF hits # {}
        THEN [st |-> "ok", tx |-> txs[CHOOSE i \in hits : \A j \in hits : i <= j]]
        ELSE [st |-> IF w.st = "ok" THEN "notfound" ELSE w.st,
              tx |-> ZeroTransaction]

\* the prevTXs map built by SignTransaction / VerifyTransaction
PrevTXs(kv, tip, tx) ==
    LET found == {FindTransaction(kv, tip, tx.VIn[i].TxID).tx : i \in 1..Len(tx.VIn)}
    IN  [k \in {EncodeToString(t.ID) : t \in found} |->
            CHOOSE t \in found : EncodeToString(t.ID) = k]

\* "ok", or how the first lookup that fails does: "notfound" (log.Panic of
\* the error), "panic" or "loop" (the walk itself fails)
RECURSIVE LookupFrom(_, _, _, _)
LookupFrom(kv, tip, tx, i) ==
    IF i > Len(tx.VIn) THEN "ok"
    ELSE LET f == FindTransaction(kv, tip, tx.VIn[i].TxID)
         IN  IF f.st = "ok" THEN LookupFrom(kv, tip, tx, i + 1)
             ELSE f.st

\* "true", "false", "notfound" / "panic" (the call panics) or "loop"
VerifyTransaction(kv, tip, tx) ==
    IF IsCoinbase(tx) THEN "true"
    ELSE LET l == LookupFrom(kv, tip, tx, 1)
         IN  IF l # "ok" THEN l ELSE Verify(tx, PrevTXs(kv, tip, tx))

\* "ok" with the signed transaction, "panic" or "loop"
SignTransaction(kv, tip, tx, privKey, lens) ==
    LET l == LookupFrom(kv, tip, tx, 1)
    IN  IF l # "ok" THEN [st |-> l, tx |-> tx]
        ELSE Sign(tx, privKey, PrevTXs(kv, tip, tx), lens)

(***************************************************************************)
(* FindUTXO.                                                               *)
(***************************************************************************)
\* the outputs of vout from position i on whose index is not in spentList
RECURSIVE UnspentFrom(_, _, _)
UnspentFrom(vout, i, spentList) ==
    IF i > Len(vout) THEN <<>>
    ELSE IF \E j \in 1..Len(spentList) : spentList[j] = i - 1
         THEN UnspentFrom(vout, i + 1, spentList)
         ELSE <<vout[i]>> \o UnspentFrom(vout, i + 1, spentList)

RECURSIVE MarkSpent(_, _, _)
MarkSpent(spentTXOs, vin, i) ==
    IF i > Len(vin) THEN spentTXOs
    ELSE LET inTxID == EncodeToString(vin[i].TxID)
         IN  MarkSpent(MapPut(spentTXOs, inTxID,
                              Append(MapGet(spentTXOs, inTxID, <<>>), vin[i].VOut)),
                       vin, i + 1)

\* the body of the loop over a block's transactions
FindUTXOStep(acc, tx) ==
    LET txID == EncodeToString(tx.ID)
        add  == UnspentFrom(tx.VOut, 1, MapGet(acc.spentTXOs, txID, <<>>))
        outs == MapGet(acc.utxo, txID, [Outputs |-> <<>>])
    IN  [utxo |-> IF add = <<>> THEN acc.utxo
                  ELSE MapPut(acc.utxo, txID, [Outputs |-> outs.Outputs \o add]),
         spentTXOs |-> IF IsCoinbase(tx) THEN acc.spentTXOs
                       ELSE MarkSpent(acc.spentTXOs, tx.VIn, 1)]

RECURSIVE FindUTXOFold(_, _, _)
FindUTXOFold(acc, txs, i) ==
    IF i > Len(txs) THEN acc
    ELSE FindUTXOFold(FindUTXOStep(acc, txs[i]), txs, i + 1)

\* st as for the walk; utxo is the returned map when st = "ok"
FindUTXO(kv, tip) ==
    LET w == Iterate(kv, tip)
    IN  [st |-> w.st,
         utxo |-> IF w.st # "ok" THEN EmptyMap
                  ELSE FindUTXOFold([utxo |-> EmptyMap, spentTXOs |-> EmptyMap],
                                    WalkTransactions(kv, tip), 1).utxo]

(***************************************************************************)
(* The UTXO set.                                                           *)
(***************************************************************************)
SerializeOutputs(outs) ==
    <<"gob.TXOutputs", [i \in 1..Len(outs.Outputs) |-> GobOutput(outs.Outputs[i])]>>

DeserializeOutputs(data) ==
    [Outputs |-> [i \in 1..Len(data[2]) |->
                     [Value |-> data[2][i][1], PubKeyHash |-> data[2][i][2]]]]

\* the inner loop over one record's outputs
RECURSIVE SpendableInRecord(_, _, _, _, _, _)
SpendableInRecord(acc, txID, outs, i, pubKeyHash, amount) ==
    IF i > Len(outs) THEN acc
    ELSE IF IsLockedWithKey(outs[i], pubKeyHash) /\ acc.accumulated < amount
         THEN SpendableInRecord(
                  [accumulated |-> acc.accumulated + outs[i].Value,
                   unspentOutputs |->
                       MapPut(acc.unspentOutputs, txID,
                              Append(MapGet(acc.unspentOutputs, txID, <<>>), i - 1))],
                  txID, outs, i + 1, pubKeyHash, amount)
         ELSE SpendableInRecord(acc, txID, outs, i + 1, pubKeyHash, amount)

RECURSIVE SpendableScan(_, _, _, _, _, _)
SpendableScan(acc, chainstate, cursor, n, pubKeyHash, amount) ==
    IF n > Len(cursor) THEN acc
    ELSE SpendableScan(
             SpendableInRecord(acc, EncodeToString(cursor[n]),
                               DeserializeOutputs(chainstate[cursor[n]]).Outputs,
                               1, pubKeyHash, amount),
             chainstate, cursor, n + 1, pubKeyHash, amount)

\* cursor: the keys of the bucket in the order the bolt cursor yields them
FindSpendableOutputs(chainstate, cursor, pubKeyHash, amount) ==
    SpendableScan([accumulated |-> 0, unspentOutputs |-> EmptyMap],
                  chainstate, cursor, 1, pubKeyHash, amount)

\* c.First() / c.Next(): the keys of the bucket, each once, in cursor order
Cursor(b) ==
    CHOOSE c \in [1..Cardinality(DOMAIN b) -> DOMAIN b] :
        \A i, j \in DOMAIN c : i # j => c[i] # c[j]

\* the orders in which a range over a Go map with key set S may run
Orders(S) ==
    {o \in [1..Cardinality(S) -> S] : \A i, j \in DOMAIN o : i # j => o[i] # o[j]}

\* the inputs loop of NewUTXOTransaction, the map ranged over in order
SelectedInputs(validOutputs, order, pubKey) ==
    Flatten([n \in 1..Len(order) |->
                [m \in 1..Len(validOutputs[order[n]]) |->
                    [TxID |-> DecodeString(order[n]),
                     VOut |-> validOutputs[order[n]][m],
                     Signature |-> Nil, PubKey |-> pubKey]]])

\* st: "funds" (log.Panic, not enough funds), "ok", or how SignTransaction
\* fails; tx: the transaction built and signed; ret: the pointer returned
NewUTXOTransactionUnchecked(k, to, amount, chainstate, order, lens, kv, tip) ==
    LET pubKeyHash == HashPubKey(PublicKey(k))
        found == FindSpendableOutputs(chainstate, Cursor(chainstate),
                                      pubKeyHash, amount)
        acc == found.accumulated
        inputs == SelectedInputs(found.unspentOutputs, order, PublicKey(k))
        from == GetAddress(k)
        outputs == <<NewTXOutput(amount, to)>> \o
                   (IF acc > amount THEN <<NewTXOutput(acc - amount, from)>>
                    ELSE <<>>)
        tx == [ID |-> Nil, VIn |-> inputs, VOut |-> outputs]
        withID == [tx EXCEPT !.ID = Hash(tx)]
        signed == SignTransaction(kv, tip, withID, k, lens)
    IN  [st |-> signed.st, found |-> found, tx |-> signed.tx, ret |-> <<>>]

\* FindSpendableOutputs, the funds check (log.Panic), the inputs in the
\* order the map range yields them, the outputs, the id and the signatures;
\* the function returns nil whatever it built
NewUTXOTransaction(k, to, amount, chainstate, order, lens, kv, tip) ==
    LET pubKeyHash == HashPubKey(PublicKey(k))
        found == FindSpendableOutputs(chainstate, Cursor(chainstate),
                                      pubKeyHash, amount)
        acc == found.accumulated
        inputs == SelectedInputs(found.unspentOutputs, order, PublicKey(k))
        from == GetAddress(k)
        outputs == <<NewTXOutput(amount, to)>> \o
                   (IF acc > amount THEN <<NewTXOutput(acc - amount, from)>>
                    ELSE <<>>)
        tx == [ID |-> Nil, VIn |-> inputs, VOut |-> outputs]
        withID == [tx EXCEPT !.ID = Hash(tx)]
        signed == SignTransaction(kv, tip, withID, k, lens)
    IN  IF acc < amount
        THEN [st |-> "funds", found |-> found, tx |-> ZeroTransaction, ret |-> <<>>]
        ELSE [st |-> signed.st, found |-> found, tx |-> signed.tx, ret |-> <<>>]

(***************************************************************************)
(* State.                                                                  *)
(*  db         the bolt file of the node: whether it exists and its        *)
(*             buckets (bucket name -> key -> value)                       *)
(*  bc         the Blockchain object of the running process: open or not   *)
(*             (no process, or the process has panicked), and bc.tip       *)
(*  miner      the MineBlock call in flight: the block sealed from the     *)
(*             tip it read, not yet committed                              *)
(*  reindexer  the Reindex call in flight: its position and the map        *)
(*             FindUTXO returned to it                                     *)
(*  entropy    the number of coinbase transactions minted for mining       *)
(*             (each carries fresh random data)                            *)
(*  adds       the number of AddBlock calls made                           *)
(*  last       the last operation completed: its name, outcome and block   *)
(*  net        the server: whether it runs, knownNodes, blocksInTransit,   *)
(*             the handleAddr goroutines in flight, the messages it has    *)
(*             sent and the peers have handled, the peers that are down,   *)
(*             and the last message it handled                             *)
(*  reader     a chain walk in flight: the iterator's currentHash, the     *)
(*             hash it started from, and the number of walks begun         *)
(***************************************************************************)
VARIABLES db, bc, miner, reindexer, entropy, adds, last, net, reader

vars == <<db, bc, miner, reindexer, entropy, adds, last, net, reader>>

blocksBucket == "blocks"

utxoBucket == "chainstate"

SendAmount == 4

ZeroBlock == [Timestamp |-> 0, Transactions |-> <<>>, PrevBlockHash |-> Nil,
              Hash |-> Nil, Nonce |-> 0, Height |-> 0]

\* the record of a NewUTXOTransaction call: its arguments, what
\* FindSpendableOutputs gave it, the transaction it built and the pointer it
\* returned (<<>> for nil, a one-element tuple otherwise)
NoCall == [k |-> 0, to |-> Nil, amount |-> 0,
           found |-> [accumulated |-> 0, unspentOutputs |-> EmptyMap],
           tx |-> ZeroTransaction, ret |-> <<>>]

\* no walk in flight, walks begun so far
ReaderIdle(walks) == [pc |-> "idle", currentHash |-> Nil, start |-> Nil, walks |-> walks]

MinerIdle == [pc |-> "idle", block |-> ZeroBlock, lastHash |-> Nil, lastHeight |-> 0]

ReindexerIdle == [pc |-> "idle", utxo |-> EmptyMap]

Blocks == db.buckets[blocksBucket]

\* b.Get(tipDbKey) and the block it names
TipHash(kv) == kv[tipDbKey]

TipBlock(kv) == DeserializeBlock(kv[TipHash(kv)])

\* GetBestHeight: the height of the block the tip key names
GetBestHeight(kv) == TipBlock(kv).Height

(***************************************************************************)
(* The server: commands, addresses, and the package variables knownNodes   *)
(* and blocksInTransit, which every connection goroutine shares.           *)
(***************************************************************************)
CommandVersion == "version"

CommandAddr == "addr"

CommandInv == "inv"

CommandGetBlocks == "getblcoks"

CommandGetData == "getdata"

CommandTx == "tx"

\* this node, and the peers: the bootstrap peer knownNodes starts with and
\* two more
nodeAddress == "localhost:3001"

BootstrapNode == "localhost:3000"

Peers == {"localhost:3000", "localhost:3002", "localhost:3003"}

\* a request sent to a peer: the command and the fields of its payload
Request(to, command, bestHeight, id) ==
    [to |-> to, command |-> command, AddrFrom |-> nodeAddress,
     BestHeight |-> bestHeight, ID |-> id]

\* a request received: the command and the fields of its payload
Received(command, addrFrom, bestHeight, addrList) ==
    [command |-> command, AddrFrom |-> addrFrom, BestHeight |-> bestHeight,
     AddrList |-> addrList]

NoRequest == Received("none", "", 0, <<>>)

\* a goroutine serving an addr request: its position, the list it walks,
\* the index it is at and the slice it read for append
HandlerFree == [pc |-> "free", AddrList |-> <<>>, i |-> 0, nodes |-> <<>>]

\* the package variables as the process starts, no connection accepted
NetInit ==
    [started |-> FALSE, knownNodes |-> <<BootstrapNode>>, blocksInTransit |-> <<>>,
     handlers |-> [g \in 1..MaxHandlers |-> HandlerFree],
     sent |-> <<>>, handled |-> 0, down |-> {},
     accepted |-> 0, starts |-> 0, last |-> NoRequest]

\* the process is gone: its goroutines and package variables with it; what
\* it sent, and what happened to the peers, stays
NetStopped(n) ==
    [n EXCEPT !.started = FALSE, !.knownNodes = <<BootstrapNode>>,
              !.blocksInTransit = <<>>,
              !.handlers = [g \in 1..MaxHandlers |-> HandlerFree]]

blocksInTransit == net.blocksInTransit

hasBlockInTransitAlways == TRUE

hasBlockInTransit == Len(blocksInTransit) # 0

nodeIsKnow(nodes, addr) == \E i \in 1..Len(nodes) : nodes[i] = addr

\* sendData: Dial fails for a peer that is down, and the peer is taken out
\* of knownNodes; otherwise the request is written to the connection
sendData(n, request) ==
    IF request.to \in n.down
    THEN [n EXCEPT !.knownNodes = SelectSeq(@, LAMBDA node : node # request.to)]
    ELSE [n EXCEPT !.sent = Append(@, request)]

sendCommandAndPayload(n, request) == sendData(n, request)

sendVersion(n, addr, kv) ==
    sendCommandAndPayload(n, Request(addr, CommandVersion, GetBestHeight(kv), Nil))

\* requestBlocks: getblcoks to every node of the slice the range statement
\* read, from position i on
RECURSIVE requestBlocksFrom(_, _, _)
requestBlocksFrom(n, nodes, i) ==
    IF i > Len(nodes) THEN n
    ELSE requestBlocksFrom(
             sendCommandAndPayload(n, Request(nodes[i], CommandGetBlocks, 0, Nil)),
             nodes, i + 1)

requestBlocks(n) == requestBlocksFrom(n, n.knownNodes, 1)

\* decodeRequestData: gob decodes into a pointer only; any other target is
\* the error "attempt to decode into a non-pointer", and log.Panic
decodeRequestData(isPointer, request) ==
    IF isPointer THEN [st |-> "ok", payload |-> request]
    ELSE [st |-> "panic", payload |-> NoRequest]

StoredHashes(kv) == (DOMAIN kv) \ {tipDbKey}

StoredBlocks(kv) == {DeserializeBlock(kv[h]) : h \in StoredHashes(kv)}

(***************************************************************************)
(* The bolt transactions of the store.                                     *)
(***************************************************************************)
createDatabaseFuncNoTip(buckets, genesis) ==
    MapPut(buckets, blocksBucket,
           MapPut(EmptyMap, genesis.Hash, SerializeBlock(genesis)))

\* the Update of CreateBlockchain: the bucket, the genesis block under its
\* hash and the tip key, in one transaction
createDatabaseFunc(buckets, genesis) ==
    MapPut(buckets, blocksBucket,
           MapPut(MapPut(EmptyMap, genesis.Hash, SerializeBlock(genesis)),
                  tipDbKey, genesis.Hash))

\* NewBlockchain: the tip loaded from the bucket
NewBlockchain(buckets) == [open |-> TRUE, tip |-> buckets[blocksBucket][tipDbKey]]

\* the Update closure of AddBlock: the bucket and bc.tip it leaves
AddBlockUpdate(b, tip, block) ==
    IF ~HasKey(b, block.Hash) THEN [kv |-> b, tip |-> tip]
    ELSE LET stored == MapPut(b, block.Hash, SerializeBlock(block))
             lastHash == stored[tipDbKey]
             lastBlock == DeserializeBlock(stored[lastHash])
         IN  IF block.Height > lastBlock.Height
             THEN [kv |-> MapPut(stored, tipDbKey, block.Hash), tip |-> block.Hash]
             ELSE [kv |-> stored, tip |-> tip]

\* the verification loop of MineBlock: "true", or how the first
\* transaction that does not verify fails
RECURSIVE MineBlockVerify(_, _, _, _)
MineBlockVerify(kv, tip, transactions, i) ==
    IF i > Len(transactions) THEN "true"
    ELSE LET v == VerifyTransaction(kv, tip, transactions[i])
         IN  IF v = "true" THEN MineBlockVerify(kv, tip, transactions, i + 1)
             ELSE v

\* the View closure of MineBlock and the sealing of the new block
MineBlockSeal(kv, transactions, now) ==
    LET lastHash == kv[tipDbKey]
        lastHeight == DeserializeBlock(kv[lastHash]).Height
    IN  [pc |-> "sealed",
         block |-> NewBlock(transactions, lastHash, lastHeight + 1, now),
         lastHash |-> lastHash, lastHeight |-> lastHeight]

\* the Update closure of MineBlock
MineBlockUpdateIfHigher(b, newBlock) ==
    LET stored == MapPut(b, newBlock.Hash, SerializeBlock(newBlock))
        lastBlock == DeserializeBlock(stored[stored[tipDbKey]])
    IN  IF newBlock.Height > lastBlock.Height
        THEN [kv |-> MapPut(stored, tipDbKey, newBlock.Hash), tip |-> newBlock.Hash]
        ELSE [kv |-> stored, tip |-> stored[tipDbKey]]

MineBlockUpdate(b, newBlock) ==
    [kv |-> MapPut(MapPut(b, newBlock.Hash, SerializeBlock(newBlock)),
                   tipDbKey, newBlock.Hash),
     tip |-> newBlock.Hash]

\* the bucket a MineBlock call that panics in its verification loop leaves
MineBlockAbortPartial(b, transactions) ==
    MapPut(b, Hash(transactions[1]), SerializeTransaction(transactions[1]))

MineBlockAbort(b, transactions) == b

ReindexDropUpdateKeep(buckets) ==
    IF HasKey(buckets, utxoBucket) THEN buckets
    ELSE MapPut(buckets, utxoBucket, EmptyMap)

\* the first Update of Reindex: drop (absence tolerated) and recreate
ReindexDropUpdate(buckets) == MapPut(buckets, utxoBucket, EmptyMap)

\* the second Update of Reindex: one Put per entry of the map
ReindexPutUpdate(b, utxo) ==
    LET keys == {DecodeString(txID) : txID \in DOMAIN utxo}
    IN  [k \in (DOMAIN b) \cup keys |->
            IF k \in keys THEN SerializeOutputs(utxo[EncodeToString(k)]) ELSE b[k]]

(***************************************************************************)
(* Inputs.  Transactions offered to MineBlock are a fresh coinbase to the  *)
(* mining address, alone or followed by one spend built the way            *)
(* NewUTXOTransaction builds it (id hashed before signing) by any wallet   *)
(* for any output of the chain, with a good or a forged signature.  Blocks *)
(* offered to AddBlock arrive in block messages: a stored block, a stored  *)
(* block with one field changed, or a block a peer mined on the tip.       *)
(***************************************************************************)
miningAddress == GetAddress(1)

Times == 1..MaxTime

Heights == 0..MaxHeight

BogusTx == NewCoinbaseTX(GetAddress(1), <<"data", -2>>)

ForeignHash == sha256(<<"foreign">>)

CraftedSpend(k, prevTx, idx, to, good) ==
    LET inRange == idx < Len(prevTx.VOut)
        value == IF inRange THEN prevTx.VOut[idx + 1].Value ELSE 0
        amount == IF inRange /\ value < SendAmount THEN value ELSE SendAmount
        outputs == <<NewTXOutput(amount, GetAddress(to))>> \o
                   (IF value > amount
                    THEN <<NewTXOutput(value - amount, GetAddress(k))>> ELSE <<>>)
        input == [TxID |-> prevTx.ID, VOut |-> idx, Signature |-> Nil,
                  PubKey |-> PublicKey(k)]
        tx == [ID |-> Nil, VIn |-> <<input>>, VOut |-> outputs]
        withID == [tx EXCEPT !.ID = Hash(tx)]
    IN  Sign(withID, IF good THEN k ELSE 0,
             [x \in {EncodeToString(prevTx.ID)} |-> prevTx], <<FullLengths>>).tx

ChainTransactions(kv, tip) ==
    LET txs == WalkTransactions(kv, tip) IN {txs[i] : i \in 1..Len(txs)}

CandidateSpends(kv, tip) ==
    UNION {{CraftedSpend(k, prevTx, idx, to, good) :
               prevTx \in ChainTransactions(kv, tip) \cup {BogusTx},
               idx \in 0..1, to \in Wallets \ {k}, good \in BOOLEAN} :
           k \in Wallets}

CandidateTxLists(kv, tip) ==
    LET cb == NewCoinbaseTX(miningAddress, <<"data", entropy + 1>>)
    IN  {<<cb>>} \cup {<<cb, s>> : s \in CandidateSpends(kv, tip)}

Amounts == {SendAmount, subsidy * (MaxCoinbase + 1)}

BlockVariants(kv, sb) ==
    {sb}
    \cup {[sb EXCEPT !.Transactions[1].VOut =
               <<[@[1] EXCEPT !.Value = SendAmount + 1],
                 [@[1] EXCEPT !.Value = 1 - SendAmount]>>]}
    \cup {[sb EXCEPT !.Height = h] : h \in Heights}
    \cup {[sb EXCEPT !.PrevBlockHash = p] :
             p \in {Nil, ForeignHash} \cup StoredHashes(kv)}
    \cup {[sb EXCEPT !.Nonce = sb.Nonce + 1]}
    \cup {[sb EXCEPT !.Transactions =
               Append(@, CraftedSpend(1, sb.Transactions[1], 0, 2, TRUE))]}

PeerBlocks(kv) ==
    UNION {BlockVariants(kv, sb) : sb \in StoredBlocks(kv)}
    \cup {NewBlock(<<NewCoinbaseTX(GetAddress(2), <<"data", -1>>)>>,
                   TipHash(kv), h, now) : h \in Heights, now \in Times}

(***************************************************************************)
(* Operations.                                                             *)
(***************************************************************************)
Init ==
    /\ db = [exists |-> FALSE, buckets |-> EmptyMap]
    /\ bc = [open |-> FALSE, tip |-> Nil]
    /\ miner = MinerIdle
    /\ reindexer = ReindexerIdle
    /\ entropy = 0
    /\ adds = 0
    /\ last = [op |-> "none", st |-> "ok", block |-> ZeroBlock, call |-> NoCall]
    /\ net = NetInit
    /\ reader = ReaderIdle(0)

\* log.Panic: the calls in flight are gone, the Blockchain object is left
\* as it was and is not used again before the node restarts
Panicked ==
    /\ bc' = [bc EXCEPT !.open = FALSE]
    /\ miner' = MinerIdle
    /\ reindexer' = ReindexerIdle

CreateBlockchain(k, now) ==
    /\ ~db.exists
    /\ LET genesis == NewGenesisBlock(
                          NewCoinbaseTX(GetAddress(k), genesisCoinbaseData), now)
       IN  /\ db' = [exists |-> TRUE,
                     buckets |-> createDatabaseFunc(db.buckets, genesis)]
           /\ bc' = [open |-> TRUE, tip |-> genesis.Hash]
           /\ last' = [op |-> "CreateBlockchain", st |-> "ok", block |-> genesis,
                       call |-> [NoCall EXCEPT !.k = k, !.to = GetAddress(k)]]
    /\ UNCHANGED <<miner, reindexer, entropy, adds, net, reader>>

\* a node process starts on the existing database
OpenBlockchain ==
    /\ db.exists
    /\ ~bc.open
    /\ bc' = NewBlockchain(db.buckets)
    /\ last' = [op |-> "NewBlockchain", st |-> "ok", block |-> ZeroBlock, call |-> NoCall]
    /\ UNCHANGED <<db, miner, reindexer, entropy, adds, net, reader>>

AddBlock(block) ==
    /\ bc.open
    /\ adds < MaxAdds
    /\ LET r == AddBlockUpdate(Blocks, bc.tip, block)
       IN  /\ db' = [db EXCEPT !.buckets[blocksBucket] = r.kv]
           /\ bc' = [bc EXCEPT !.tip = r.tip]
    /\ adds' = adds + 1
    /\ last' = [op |-> "AddBlock", st |-> "ok", block |-> block, call |-> NoCall]
    /\ UNCHANGED <<miner, reindexer, entropy, net, reader>>

\* MineBlock up to the sealed block: every transaction verified
MineBlockBegin(transactions, now) ==
    /\ bc.open
    /\ miner.pc = "idle"
    /\ entropy < MaxCoinbase
    /\ MineBlockVerify(Blocks, bc.tip, transactions, 1) = "true"
    /\ miner' = MineBlockSeal(Blocks, transactions, now)
    /\ entropy' = entropy + 1
    /\ last' = [op |-> "MineBlockSeal", st |-> "ok", block |-> miner'.block, call |-> NoCall]
    /\ UNCHANGED <<db, bc, reindexer, adds, net, reader>>

\* MineBlock panicking in its verification loop
MineBlockPanic(transactions) ==
    /\ bc.open
    /\ miner.pc = "idle"
    /\ entropy < MaxCoinbase
    /\ LET v == MineBlockVerify(Blocks, bc.tip, transactions, 1)
       IN  /\ v \in {"false", "notfound", "panic"}
           /\ last' = [op |-> "MineBlock", st |-> v, block |-> ZeroBlock, call |-> NoCall]
    /\ db' = [db EXCEPT !.buckets[blocksBucket] = MineBlockAbort(Blocks, transactions)]
    /\ Panicked
    /\ UNCHANGED <<entropy, adds, net, reader>>

\* the write transaction of MineBlock
MineBlockCommit ==
    /\ bc.open
    /\ miner.pc = "sealed"
    /\ LET r == MineBlockUpdate(Blocks, miner.block)
       IN  /\ db' = [db EXCEPT !.buckets[blocksBucket] = r.kv]
           /\ bc' = [bc EXCEPT !.tip = r.tip]
    /\ miner' = MinerIdle
    /\ last' = [op |-> "MineBlock", st |-> "ok", block |-> miner.block, call |-> NoCall]
    /\ UNCHANGED <<reindexer, entropy, adds, net, reader>>

\* a wallet asks for a transaction: NewUTXOTransaction on the UTXO set
SendOutcome(k, to, amount, r) ==
    /\ r.st # "loop"
    /\ last' = [op |-> "NewUTXOTransaction", st |-> r.st,
                block |-> ZeroBlock,
                call |-> [k |-> k, to |-> to, amount |-> amount,
                          found |-> r.found, tx |-> r.tx, ret |-> r.ret]]
    /\ IF r.st = "ok" THEN UNCHANGED <<bc, miner, reindexer>>
       ELSE Panicked

\* the orders the range over validOutputs may take
SendOrders(chainstate, pubKeyHash, amount) ==
    Orders(DOMAIN FindSpendableOutputs(chainstate, Cursor(chainstate),
                                       pubKeyHash, amount).unspentOutputs)

\* the lengths ecdsa.Sign may give the signature of each input
SendLengths(chainstate, pubKeyHash, amount, order, lengths) ==
    [1..Len(SelectedInputs(
                FindSpendableOutputs(chainstate, Cursor(chainstate),
                                     pubKeyHash, amount).unspentOutputs,
                order, Nil)) -> lengths]

Send(k, to, amount, lengths) ==
    /\ bc.open
    /\ IF ~HasKey(db.buckets, utxoBucket)
       THEN /\ last' = [op |-> "NewUTXOTransaction", st |-> "panic",
                        block |-> ZeroBlock,
                        call |-> [NoCall EXCEPT !.k = k, !.to = to, !.amount = amount]]
            /\ Panicked
       ELSE \E order \in SendOrders(db.buckets[utxoBucket],
                                    HashPubKey(PublicKey(k)), amount) :
              \E lens \in SendLengths(db.buckets[utxoBucket],
                                      HashPubKey(PublicKey(k)), amount,
                                      order, lengths) :
                SendOutcome(k, to, amount,
                    NewUTXOTransaction(k, to, amount, db.buckets[utxoBucket],
                                       order, lens, Blocks, bc.tip))
    /\ UNCHANGED <<db, entropy, adds, net, reader>>

\* handleBlock: AddBlock on the decoded block, then, no block being in
\* transit, Reindex (its transactions are the Reindex steps below)
handleBlock(from, block) ==
    /\ bc.open
    /\ adds < MaxAdds
    /\ reindexer.pc = "idle"
    /\ adds' = adds + 1
    /\ last' = [op |-> "AddBlock", st |-> "ok", block |-> block, call |-> NoCall]
    /\ LET r == AddBlockUpdate(Blocks, bc.tip, block)
       IN  /\ db' = [db EXCEPT !.buckets[blocksBucket] = r.kv]
           /\ IF ~hasBlockInTransit
              THEN /\ bc' = [bc EXCEPT !.tip = r.tip]
                   /\ reindexer' = [pc |-> "called", utxo |-> EmptyMap]
                   /\ UNCHANGED net
              ELSE IF Len(blocksInTransit) = 0
              THEN \* blocksInTransit[0] of an empty slice: index out of range
                   /\ bc' = [open |-> FALSE, tip |-> r.tip]
                   /\ reindexer' = ReindexerIdle
                   /\ net' = NetStopped(net)
              ELSE /\ bc' = [bc EXCEPT !.tip = r.tip]
                   /\ reindexer' = ReindexerIdle
                   /\ net' = [sendCommandAndPayload(net,
                                  Request(from, CommandGetData, 0, blocksInTransit[1]))
                              EXCEPT !.blocksInTransit = Tail(@)]
    /\ UNCHANGED <<miner, entropy, reader>>

ReindexDrop ==
    /\ bc.open
    /\ reindexer.pc \in {"idle", "called"}
    /\ db' = [db EXCEPT !.buckets = ReindexDropUpdate(@)]
    /\ reindexer' = [pc |-> "find", utxo |-> EmptyMap]
    /\ last' = [op |-> "ReindexDrop", st |-> "ok", block |-> ZeroBlock, call |-> NoCall]
    /\ UNCHANGED <<bc, miner, entropy, adds, net, reader>>

ReindexFind ==
    /\ bc.open
    /\ reindexer.pc = "find"
    /\ LET f == FindUTXO(Blocks, bc.tip)
       IN  IF f.st = "ok"
           THEN /\ reindexer' = [pc |-> "put", utxo |-> f.utxo]
                /\ last' = [op |-> "FindUTXO", st |-> "ok", block |-> ZeroBlock, call |-> NoCall]
                /\ UNCHANGED <<bc, miner>>
           ELSE /\ Panicked
                /\ last' = [op |-> "FindUTXO", st |-> f.st, block |-> ZeroBlock, call |-> NoCall]
    /\ UNCHANGED <<db, entropy, adds, net, reader>>

ReindexPut ==
    /\ bc.open
    /\ reindexer.pc = "put"
    /\ db' = [db EXCEPT !.buckets[utxoBucket] = ReindexPutUpdate(@, reindexer.utxo)]
    /\ reindexer' = ReindexerIdle
    /\ last' = [op |-> "Reindex", st |-> "ok", block |-> ZeroBlock, call |-> NoCall]
    /\ UNCHANGED <<bc, miner, entropy, adds, net, reader>>

StoreNext ==
    \/ \E now \in Times : CreateBlockchain(1, now)
    \/ OpenBlockchain
    \/ bc.open /\ \E block \in PeerBlocks(Blocks) : AddBlock(block)
    \/ bc.open /\ \E txs \in CandidateTxLists(Blocks, bc.tip), now \in Times :
                      MineBlockBegin(txs, now)
    \/ bc.open /\ \E txs \in CandidateTxLists(Blocks, bc.tip) : MineBlockPanic(txs)
    \/ MineBlockCommit

IndexNext ==
    \/ \E now \in Times : CreateBlockchain(1, now)
    \/ OpenBlockchain
    \/ bc.open /\ \E txs \in CandidateTxLists(Blocks, bc.tip), now \in Times :
                      MineBlockBegin(txs, now)
    \/ bc.open /\ \E txs \in CandidateTxLists(Blocks, bc.tip) : MineBlockPanic(txs)
    \/ MineBlockCommit
    \/ \E k \in Wallets, to \in Wallets, amount \in Amounts :
           k # to /\ Send(k, GetAddress(to), amount, {FullLengths})
    \/ ReindexDrop
    \/ ReindexFind
    \/ ReindexPut

(***************************************************************************)
(* Steps of the operations, recognised in a pair of states.                *)
(***************************************************************************)
AddBlockStep == adds' = adds + 1 /\ last'.op = "AddBlock"

MineBlockCommitStep ==
    miner.pc = "sealed" /\ last'.op = "MineBlock" /\ last'.st = "ok"

MineBlockAbortStep ==
    /\ bc.open /\ ~bc'.open
    /\ last'.op = "MineBlock"
    /\ last'.st \in {"false", "notfound", "panic"}

\* the node: the block message handler, Reindex, and the mining of blocks
\* that hold a coinbase only
NodeNext ==
    \/ \E now \in Times : CreateBlockchain(1, now)
    \/ OpenBlockchain
    \/ bc.open /\ \E block \in PeerBlocks(Blocks) : handleBlock(BootstrapNode, block)
    \/ bc.open /\ \E now \in Times :
           MineBlockBegin(<<NewCoinbaseTX(miningAddress, <<"data", entropy + 1>>)>>, now)
    \/ MineBlockCommit
    \/ \E k \in Wallets, to \in Wallets, amount \in Amounts :
           k # to /\ Send(k, GetAddress(to), amount, {FullLengths})
    \/ ReindexDrop
    \/ ReindexFind
    \/ ReindexPut

\* wallets sending from a chain of coinbase blocks, every length of
\* signature drawn
\* a key pair is generated: the coordinates of its point are any two
\* numbers below the field's prime, of ScalarBytes bytes or fewer
newKeyPair(k, lens) ==
    /\ last' = [op |-> "newKeyPair", st |-> "ok", block |-> ZeroBlock,
                call |-> [NoCall EXCEPT !.k = k, !.ret = <<JoinPublicKey(k, lens)>>]]
    /\ UNCHANGED <<db, bc, miner, reindexer, entropy, adds, net, reader>>

SignNext ==
    \/ \E now \in Times : CreateBlockchain(1, now)
    \/ bc.open /\ \E now \in Times :
           MineBlockBegin(<<NewCoinbaseTX(miningAddress, <<"data", entropy + 1>>)>>, now)
    \/ MineBlockCommit
    \/ \E k \in Wallets, to \in Wallets, amount \in Amounts :
           k # to /\ Send(k, GetAddress(to), amount, SignatureLengths)
    \/ \E k \in Wallets, lens \in SignatureLengths : newKeyPair(k, lens)
    \/ ReindexDrop
    \/ ReindexFind
    \/ ReindexPut

\* the block store under mining and block messages
Spec == Init /\ [][StoreNext]_vars

\* the UTXO index under mining and reindexing
SpecIndex == Init /\ [][IndexNext]_vars

\* the UTXO index under mining, block messages and reindexing
SpecNode == Init /\ [][NodeNext]_vars

\* signing under every length of signature
SpecSign == Init /\ [][SignNext]_vars

(***************************************************************************)
(* AddBlock.                                                               *)
(***************************************************************************)
\* C1: after AddBlock(b), if b.height exceeds the height of the block the
\* tip referenced, the persisted tip and the in-memory tip both equal
\* b.hash; otherwise the tip is unchanged.
AddBlockTipMonotone ==
    [][AddBlockStep =>
          LET b == last'.block
          IN  IF b.Height > TipBlock(Blocks).Height
              THEN TipHash(Blocks') = b.Hash /\ bc'.tip = b.Hash
              ELSE TipHash(Blocks') = TipHash(Blocks) /\ bc'.tip = bc.tip]_vars

\* C2: after AddBlock(b) of a block whose hash was not a key of the blocks
\* bucket, the bucket maps b.hash to the serialized b.
AddBlockStoresUnknown ==
    [][(AddBlockStep /\ ~HasKey(Blocks, last'.block.Hash)) =>
          /\ HasKey(Blocks', last'.block.Hash)
          /\ DeserializeBlock(Blocks'[last'.block.Hash]) = last'.block]_vars

\* C3: AddBlock(b) of a block whose hash is already a key of the blocks
\* bucket changes no record, nor the persisted tip, nor the in-memory tip.
AddBlockIdempotent ==
    [][(AddBlockStep /\ HasKey(Blocks, last'.block.Hash)) =>
          Blocks' = Blocks /\ bc'.tip = bc.tip]_vars

MineBlockAbortsClean ==
    [][MineBlockAbortStep => Blocks' = Blocks /\ bc'.tip = bc.tip]_vars

\* a call refused for a forged signature, on a chain with a mined block
MineBlockAbortsCleanWitness ==
    /\ last.op = "MineBlock" /\ last.st = "false"
    /\ Cardinality(StoredHashes(Blocks)) = 2

(***************************************************************************)
(* Invariants of the block store.                                          *)
(***************************************************************************)
\* C6: the persisted tip is the hash of a stored block, and the walk along
\* PrevBlockHash from it meets stored blocks only and ends at a block with
\* an empty PrevBlockHash.
TipReachesGenesis ==
    db.exists =>
        /\ HasKey(Blocks, TipHash(Blocks))
        /\ Iterate(Blocks, TipHash(Blocks)).st = "ok"

\* C7: every record of the blocks bucket is stored under its own hash, and
\* that hash is the digest of the record's header fields with its nonce and
\* is below the target.
StoredBlocksProofOfWork ==
    db.exists =>
        \A h \in StoredHashes(Blocks) :
            LET b == DeserializeBlock(Blocks[h])
            IN  /\ b.Hash = h
                /\ b.Hash = sha256(prepareData(b, b.Nonce))
                /\ Validate(b)

(***************************************************************************)
(* Verification.                                                           *)
(***************************************************************************)
\* C8: a non-coinbase transaction verifies only if each input references an
\* existing output of its previous transaction and the input's PubKey
\* hashes to that output's PubKeyHash.
OnlyOwnerSpends ==
    bc.open =>
        \A tx \in CandidateSpends(Blocks, bc.tip) :
            VerifyTransaction(Blocks, bc.tip, tx) = "true" =>
                \A i \in 1..Len(tx.VIn) :
                    LET f == FindTransaction(Blocks, bc.tip, tx.VIn[i].TxID)
                    IN  /\ f.st = "ok"
                        /\ tx.VIn[i].VOut < Len(f.tx.VOut)
                        /\ IsLockedWithKey(f.tx.VOut[tx.VIn[i].VOut + 1],
                                           HashPubKey(tx.VIn[i].PubKey))

(***************************************************************************)
(* The unspent outputs.                                                    *)
(***************************************************************************)
\* the (TxID, VOut) pairs the inputs of the non-coinbase transactions name
Referenced(txs) ==
    UNION {{<<txs[i].VIn[j].TxID, txs[i].VIn[j].VOut>> : j \in 1..Len(txs[i].VIn)} :
           i \in {n \in 1..Len(txs) : ~IsCoinbase(txs[n])}}

\* the outputs of tx from position i on that no pair of refs names
RECURSIVE UnreferencedFrom(_, _, _)
UnreferencedFrom(tx, i, refs) ==
    IF i > Len(tx.VOut) THEN <<>>
    ELSE IF <<tx.ID, i - 1>> \in refs THEN UnreferencedFrom(tx, i + 1, refs)
    ELSE <<tx.VOut[i]>> \o UnreferencedFrom(tx, i + 1, refs)

Elements(seq) == {seq[i] : i \in 1..Len(seq)}

\* C9: the map FindUTXO returns holds, for every transaction of the chain,
\* the outputs that no input of a non-coinbase transaction of the chain
\* references and no other output, and holds no other transaction.
FindUTXOExact ==
    (bc.open /\ FindUTXO(Blocks, bc.tip).st = "ok") =>
        LET txs == WalkTransactions(Blocks, bc.tip)
            utxo == FindUTXO(Blocks, bc.tip).utxo
        IN  /\ DOMAIN utxo \subseteq {EncodeToString(txs[i].ID) : i \in 1..Len(txs)}
            /\ \A i \in 1..Len(txs) :
                   Elements(MapGet(utxo, EncodeToString(txs[i].ID),
                                   [Outputs |-> <<>>]).Outputs)
                       = Elements(UnreferencedFrom(txs[i], 1, Referenced(txs)))

\* the transactions of the walk that occur once in it and have an output
\* some input references and an output none does
PartlySpent(txs) ==
    {txs[i] : i \in {n \in 1..Len(txs) :
        /\ \A m \in 1..Len(txs) : txs[m].ID = txs[n].ID => m = n
        /\ \E o \in 0..(Len(txs[n].VOut) - 1) : <<txs[n].ID, o>> \in Referenced(txs)
        /\ \E o \in 0..(Len(txs[n].VOut) - 1) : <<txs[n].ID, o>> \notin Referenced(txs)}}

\* every input of a non-coinbase transaction of the walk is signed by the
\* owner of an output of the walk, and no output is referenced twice
Honest(txs) ==
    LET spends == {n \in 1..Len(txs) : ~IsCoinbase(txs[n])}
    IN  /\ \A n \in spends : \A j \in 1..Len(txs[n].VIn) :
               \E m \in 1..Len(txs) :
                   /\ txs[m].ID = txs[n].VIn[j].TxID
                   /\ txs[n].VIn[j].VOut \in 0..(Len(txs[m].VOut) - 1)
                   /\ IsLockedWithKey(txs[m].VOut[txs[n].VIn[j].VOut + 1],
                                      HashPubKey(txs[n].VIn[j].PubKey))
        /\ \A n, m \in spends : \A i \in 1..Len(txs[n].VIn), j \in 1..Len(txs[m].VIn) :
               (txs[n].VIn[i].TxID = txs[m].VIn[j].TxID
                   /\ txs[n].VIn[i].VOut = txs[m].VIn[j].VOut) => (n = m /\ i = j)

\* C10: after a Reindex, every index FindSpendableOutputs reports for a
\* transaction with some outputs spent and some unspent is the position, in
\* that transaction's own output list, of the output the chainstate record
\* holds at that index (stated for chains of owner-signed single spends).
SpendableIndicesOriginal ==
    (bc.open /\ last.op = "Reindex" /\ Honest(WalkTransactions(Blocks, bc.tip))) =>
        LET chainstate == db.buckets[utxoBucket]
        IN  \A k \in Wallets, tx \in PartlySpent(WalkTransactions(Blocks, bc.tip)) :
              LET found == FindSpendableOutputs(chainstate, Cursor(chainstate),
                               HashPubKey(PublicKey(k)), subsidy * (MaxCoinbase + 1))
                  reported == MapGet(found.unspentOutputs, EncodeToString(tx.ID), <<>>)
              IN  \A n \in 1..Len(reported) :
                      /\ reported[n] < Len(tx.VOut)
                      /\ tx.VOut[reported[n] + 1] =
                             DeserializeOutputs(chainstate[tx.ID]).Outputs[reported[n] + 1]

(***************************************************************************)
(* Reindex.                                                                *)
(***************************************************************************)
ReindexPutStep == reindexer.pc = "put" /\ last'.op = "Reindex"

\* one entry per transaction id of a FindUTXO map: raw id -> serialized outputs
Indexed(utxo) ==
    [k \in {DecodeString(txID) : txID \in DOMAIN utxo} |->
        SerializeOutputs(utxo[EncodeToString(k)])]

\* C11: when Reindex completes and the chain still yields the map Reindex
\* read (no writer in between), the chainstate bucket holds exactly one
\* entry per transaction id of FindUTXO(), with the serialized outputs
\* FindUTXO() returns, whatever the bucket held before the call.
ReindexPure ==
    [][(ReindexPutStep /\ FindUTXO(Blocks, bc.tip).utxo = reindexer.utxo) =>
          db'.buckets[utxoBucket] = Indexed(FindUTXO(Blocks', bc'.tip).utxo)]_vars

\* a completed Reindex of a chain of three blocks in which some transaction
\* has no unspent output left
ReindexPureWitness ==
    /\ bc.open /\ last.op = "Reindex"
    /\ Cardinality(StoredHashes(Blocks)) = 3
    /\ db.buckets[utxoBucket] = Indexed(FindUTXO(Blocks, bc.tip).utxo)
    /\ \E tx \in ChainTransactions(Blocks, bc.tip) :
           ~HasKey(db.buckets[utxoBucket], tx.ID)

\* C12: no state shows the chainstate bucket of a Reindex in progress:
\* once the bucket exists it is never empty while the chain has unspent
\* outputs.
ReindexAtomic ==
    (bc.open /\ HasKey(db.buckets, utxoBucket)
        /\ FindUTXO(Blocks, bc.tip).st = "ok"
        /\ FindUTXO(Blocks, bc.tip).utxo # EmptyMap)
    => db.buckets[utxoBucket] # EmptyMap

\* C13: once the store has been reindexed, whenever no ledger operation is
\* in flight the chainstate bucket holds the unspent-output map of the chain
\* from the tip, and FindSpendableOutputs reports no output that an input of
\* the chain references.
IndexTracksChain ==
    (bc.open /\ HasKey(db.buckets, utxoBucket)
        /\ miner.pc = "idle" /\ reindexer.pc = "idle"
        /\ FindUTXO(Blocks, bc.tip).st = "ok")
    => LET chainstate == db.buckets[utxoBucket]
           txs == WalkTransactions(Blocks, bc.tip)
       IN  /\ chainstate = Indexed(FindUTXO(Blocks, bc.tip).utxo)
           /\ \A k \in Wallets :
                  LET found == FindSpendableOutputs(chainstate, Cursor(chainstate),
                                   HashPubKey(PublicKey(k)),
                                   subsidy * (MaxCoinbase + 1))
                  IN  \A txID \in DOMAIN found.unspentOutputs :
                          \A n \in 1..Len(found.unspentOutputs[txID]) :
                              <<DecodeString(txID), found.unspentOutputs[txID][n]>>
                                  \notin Referenced(txs)

(***************************************************************************)
(* FindSpendableOutputs and NewUTXOTransaction.                            *)
(***************************************************************************)
RECURSIVE SumSeq(_)
SumSeq(values) == IF values = <<>> THEN 0 ELSE Head(values) + SumSeq(Tail(values))

\* the values of the outputs the indices of unspentOutputs name, in the
\* order the cursor met them
SelectedValues(chainstate, unspentOutputs) ==
    LET cursor == Cursor(chainstate)
    IN  Flatten([n \in 1..Len(cursor) |->
            LET outs == DeserializeOutputs(chainstate[cursor[n]]).Outputs
                idxs == MapGet(unspentOutputs, EncodeToString(cursor[n]), <<>>)
            IN  [m \in 1..Len(idxs) |-> outs[idxs[m] + 1].Value]])

\* the values of all the outputs of the bucket locked to pubKeyHash
LockedValues(chainstate, pubKeyHash) ==
    LET cursor == Cursor(chainstate)
    IN  Flatten([n \in 1..Len(cursor) |->
            LET outs == SelectSeq(DeserializeOutputs(chainstate[cursor[n]]).Outputs,
                                  LAMBDA o : IsLockedWithKey(o, pubKeyHash))
            IN  [m \in 1..Len(outs) |-> outs[m].Value]])

SendDone == bc.open /\ last.op = "NewUTXOTransaction" /\ last.st = "ok"

SendRefused == last.op = "NewUTXOTransaction" /\ last.st = "funds"

\* C14: what FindSpendableOutputs returned to a NewUTXOTransaction call:
\* every index names an output of the record locked to the key hash, the
\* accumulated value is the sum of the named outputs, each was taken while
\* the sum before it was below the amount, and accumulated < amount exactly
\* when all the indexed outputs locked to the key hash sum to less than the
\* amount.
SpendableSelection ==
    (SendDone \/ SendRefused) =>
        LET chainstate == db.buckets[utxoBucket]
            pubKeyHash == HashPubKey(PublicKey(last.call.k))
            found == last.call.found
            amount == last.call.amount
            values == SelectedValues(chainstate, found.unspentOutputs)
        IN  /\ \A txID \in DOMAIN found.unspentOutputs :
                   \A n \in 1..Len(found.unspentOutputs[txID]) :
                       LET outs == DeserializeOutputs(
                                       chainstate[DecodeString(txID)]).Outputs
                           outIdx == found.unspentOutputs[txID][n]
                       IN  /\ outIdx \in 0..(Len(outs) - 1)
                           /\ IsLockedWithKey(outs[outIdx + 1], pubKeyHash)
            /\ found.accumulated = SumSeq(values)
            /\ \A n \in 1..Len(values) : SumSeq(SubSeq(values, 1, n - 1)) < amount
            /\ (found.accumulated < amount)
                  <=> (SumSeq(LockedValues(chainstate, pubKeyHash)) < amount)


SendStep ==
    bc.open /\ last'.op = "NewUTXOTransaction" /\ (last' # last \/ ~bc'.open)

\* C15: a NewUTXOTransaction call for which FindSpendableOutputs accumulates
\* less than the amount ends with the insufficient-funds failure, has built
\* and signed nothing, and leaves the blocks bucket, the tip and the
\* chainstate bucket as they were.
InsufficientFundsRejected ==
    [][(/\ SendStep
        /\ HasKey(db.buckets, utxoBucket)
        /\ FindSpendableOutputs(db.buckets[utxoBucket],
                                Cursor(db.buckets[utxoBucket]),
                                HashPubKey(PublicKey(last'.call.k)),
                                last'.call.amount).accumulated < last'.call.amount)
       => /\ last'.st = "funds"
          /\ last'.call.tx = ZeroTransaction
          /\ last'.call.ret = <<>>
          /\ db' = db
          /\ bc'.tip = bc.tip]_vars

InsufficientFundsRejectedWitness ==
    /\ SendRefused
    /\ last.call.found.accumulated > 0
    /\ last.call.found.accumulated < last.call.amount
    /\ db.buckets[utxoBucket] # EmptyMap


SelectedPairs(unspentOutputs) ==
    UNION {{<<DecodeString(txID), unspentOutputs[txID][n]>> :
                n \in 1..Len(unspentOutputs[txID])} : txID \in DOMAIN unspentOutputs}

\* the transaction a successful NewUTXOTransaction call built: one input per
\* selected output, amount to the recipient first, the change to the sender
\* exactly when acc > amount, outputs summing to the value spent
BuiltTransactionConserves ==
    SendDone =>
        LET c == last.call
            acc == c.found.accumulated
            pairs == SelectedPairs(c.found.unspentOutputs)
            spent == SumSeq(SelectedValues(db.buckets[utxoBucket],
                                           c.found.unspentOutputs))
        IN  /\ Len(c.tx.VIn) = Cardinality(pairs)
            /\ {<<c.tx.VIn[n].TxID, c.tx.VIn[n].VOut>> : n \in 1..Len(c.tx.VIn)} = pairs
            /\ \A n \in 1..Len(c.tx.VIn) :
                   /\ c.tx.VIn[n].PubKey = PublicKey(c.k)
                   /\ c.tx.VIn[n].Signature # Nil
            /\ c.tx.VOut[1] = NewTXOutput(c.amount, c.to)
            /\ Len(c.tx.VOut) = IF acc > c.amount THEN 2 ELSE 1
            /\ acc > c.amount => c.tx.VOut[2] = NewTXOutput(acc - c.amount, GetAddress(c.k))
            /\ SumSeq([n \in 1..Len(c.tx.VOut) |-> c.tx.VOut[n].Value]) = acc
            /\ acc = spent

\* C16: on success the caller of NewUTXOTransaction receives the built and
\* signed transaction, and that transaction conserves value.
ReturnsBuiltTransaction ==
    /\ BuiltTransactionConserves
    /\ SendDone => last.call.ret = <<last.call.tx>>


(***************************************************************************)
(* Sign and Verify.                                                        *)
(***************************************************************************)
\* every transaction of the chain under its hex id
AllPrevTXs ==
    [txID \in {EncodeToString(t.ID) : t \in ChainTransactions(Blocks, bc.tip)} |->
        CHOOSE t \in ChainTransactions(Blocks, bc.tip) : EncodeToString(t.ID) = txID]

\* signatures other than the one input i carries: none, or one made by
\* another key or over the data of another input
OtherSignatures(tx, i, prevTXs) ==
    ({Nil} \cup
     {JoinSignature(EcdsaSign(k, DataToSign(tx, j, prevTXs)), lens) :
         k \in Wallets \cup {0}, j \in 1..Len(tx.VIn), lens \in SignatureLengths})
    \ {sig \in {tx.VIn[i].Signature} \cup
              {JoinSignature(<<"sig", tx.VIn[i].Signature[2]>>, lens) :
                  lens \in SignatureLengths} : TRUE}

\* outputs of the previous transactions other than the one input i names
OtherReferences(tx, i, prevTXs) ==
    UNION {{<<prevTXs[txID].ID, n - 1>> : n \in 1..Len(prevTXs[txID].VOut)} :
              txID \in DOMAIN prevTXs}
    \ {<<tx.VIn[i].TxID, tx.VIn[i].VOut>>}

VerifiesAndRejects(tx, prevTXs) ==
    /\ Verify(tx, prevTXs) = "true"
    /\ \A i \in 1..Len(tx.VIn) :
           \A sig \in OtherSignatures(tx, i, prevTXs) :
               Verify([tx EXCEPT !.VIn[i].Signature = sig], prevTXs) = "false"
    /\ \A i \in 1..Len(tx.VIn) :
           \A ref \in OtherReferences(tx, i, prevTXs) :
               Verify([tx EXCEPT !.VIn[i].TxID = ref[1], !.VIn[i].VOut = ref[2]],
                      prevTXs) = "false"

\* r.Bytes() is no longer than s.Bytes(), and shorter by one byte at most,
\* in every signature of tx
CutsAtR(tx) ==
    \A i \in 1..Len(tx.VIn) : SplitSignature(tx.VIn[i].Signature) # Nil

\* what holds of Sign and Verify: the property of C17 for the signatures
\* that sigLen/2 cuts at the end of r
SignThenVerifyCutAtR ==
    (SendDone /\ CutsAtR(last.call.tx)) =>
        VerifiesAndRejects(last.call.tx, AllPrevTXs)

\* C17: a transaction whose inputs name outputs of the previous
\* transactions and carry the signer's public key, once signed, verifies
\* against those previous transactions; with any one signature replaced, or
\* any one input pointed at another output of them, it does not.
SignThenVerify ==
    SendDone => VerifiesAndRejects(last.call.tx, AllPrevTXs)


(***************************************************************************)
(* The Merkle tree.                                                        *)
(***************************************************************************)
TransactionData(b) ==
    [i \in 1..Len(b.Transactions) |-> SerializeTransaction(b.Transactions[i])]

\* C18: for the transactions of every block of the store (one or more),
\* NewMerkleTree ends without failure and its root is the root of the
\* reduction: leaves hashed, adjacent pairs combined level by level, the
\* last node of a level of odd length doubled.
MerkleTreeBuilt ==
    db.exists =>
        \A b \in StoredBlocks(Blocks) :
            /\ NewMerkleTree(TransactionData(b)).st = "ok"
            /\ NewMerkleTree(TransactionData(b)).root = MerkleRoot(TransactionData(b))


(***************************************************************************)
(* The chain walk.                                                         *)
(***************************************************************************)
\* C19: the walk of GetBlockHashes from bc.tip ends, reads stored blocks
\* only, emits the tip hash first and the hash of a block without
\* predecessor last, emits no hash twice, and every hash after the first
\* is the PrevBlockHash of the block emitted before it.
WalkEndsAtGenesis ==
    bc.open =>
        LET w == Iterate(Blocks, bc.tip)
            hashes == GetBlockHashes(Blocks, bc.tip).hashes
        IN  /\ w.st = "ok"
            /\ Len(hashes) >= 1
            /\ hashes[1] = bc.tip
            /\ Len(w.blocks[Len(w.blocks)].PrevBlockHash) = 0
            /\ \A i, j \in 1..Len(hashes) : i # j => hashes[i] # hashes[j]
            /\ \A i \in 2..Len(hashes) : hashes[i] = w.blocks[i - 1].PrevBlockHash


(***************************************************************************)
(* CreateBlockchain.                                                       *)
(***************************************************************************)
CreateBlockchainStep == ~db.exists /\ db'.exists

Serving == bc.open /\ net.started

\* the requests peers send
VersionRequests ==
    {Received(CommandVersion, a, h, <<>>) :
        a \in {BootstrapNode, "localhost:3002"}, h \in Heights}

\* the blocks peers send the server: a block on top of the tip, and the
\* stored blocks again, at any height
BlockRequests(kv) ==
    {NewBlock(<<NewCoinbaseTX(GetAddress(2), <<"data", -1>>)>>,
              TipHash(kv), GetBestHeight(kv) + 1, MaxTime)}
    \cup {[sb EXCEPT !.Height = h] : sb \in StoredBlocks(kv), h \in Heights}

AddrRequests ==
    {Received(CommandAddr, "", 0, <<a>>) : a \in Peers}
    \cup {Received(CommandAddr, "", 0, <<"localhost:3002", "localhost:3003">>)}

Called(op, st) == [op |-> op, st |-> st, block |-> ZeroBlock, call |-> NoCall]

\* the connection accepted and its request read
Accepted(n, request) == [n EXCEPT !.accepted = @ + 1, !.last = request]

\* log.Panic in a goroutine of the server ends the process
ServerPanicked(n) ==
    /\ Panicked
    /\ net' = NetStopped(n)

\* a node process starts on the existing database (the process that held
\* it before has ended), and greets the bootstrap node unless it is that node
StartServer ==
    /\ db.exists
    /\ ~net.started
    /\ miner.pc = "idle"
    /\ reindexer.pc = "idle"
    /\ net.starts < MaxStarts
    /\ bc' = NewBlockchain(db.buckets)
    /\ LET n == [NetStopped(net) EXCEPT !.started = TRUE, !.starts = @ + 1]
       IN  net' = IF nodeAddress # n.knownNodes[1]
                  THEN sendVersion(n, n.knownNodes[1], Blocks)
                  ELSE n
    /\ last' = Called("StartServer", "ok")
    /\ UNCHANGED <<db, miner, reindexer, entropy, adds, reader>>

addToKnownNodes(nodes, addr) ==
    IF ~nodeIsKnow(nodes, addr) THEN Append(nodes, addr) ELSE nodes

\* handleVersion after the decoding: the comparison of heights, the reply
\* and the peer added
handleVersionReply(n, payload, kv) ==
    LET myBestHeight == GetBestHeight(kv)
        foreignerBestHeight == payload.BestHeight
        replied ==
            IF myBestHeight < foreignerBestHeight
            THEN sendCommandAndPayload(n,
                     Request(payload.AddrFrom, CommandGetBlocks, 0, Nil))
            ELSE IF myBestHeight > foreignerBestHeight
            THEN sendVersion(n, payload.AddrFrom, kv)
            ELSE n
    IN  [replied EXCEPT !.knownNodes = addToKnownNodes(@, payload.AddrFrom)]

\* handleVersion hands decodeRequestData the payload struct itself, not a
\* pointer to it
handleVersionDecoded(request, decoded) ==
    /\ last' = Called("handleVersion", decoded.st)
    /\ IF decoded.st = "panic"
       THEN ServerPanicked(Accepted(net, request))
       ELSE /\ net' = handleVersionReply(Accepted(net, request), decoded.payload, Blocks)
            /\ UNCHANGED <<bc, miner, reindexer>>

handleVersion(request) ==
    /\ Serving
    /\ net.accepted < MaxConns
    /\ handleVersionDecoded(request, decodeRequestData(FALSE, request))
    /\ UNCHANGED <<db, entropy, adds, reader>>


\* handleAddr: the goroutine g decodes the list and begins to walk it
handleAddr(g, request) ==
    /\ Serving
    /\ net.accepted < MaxConns
    /\ net.handlers[g].pc = "free"
    /\ net' = [Accepted(net, request) EXCEPT
                  !.handlers[g] = [pc |-> "check", AddrList |-> request.AddrList,
                                   i |-> 1, nodes |-> <<>>]]
    /\ last' = Called("handleAddr", "ok")
    /\ UNCHANGED <<db, bc, miner, reindexer, entropy, adds, reader>>

\* the goroutine moves on to the next address, or to requestBlocks
NextAddr(h) ==
    IF h.i < Len(h.AddrList) THEN [h EXCEPT !.pc = "check", !.i = @ + 1]
    ELSE [h EXCEPT !.pc = "request"]

\* addToKnownNodes, as the goroutines interleave in it: nodeIsKnow reads
\* knownNodes ...
addToKnownNodesCheck(g) ==
    /\ Serving
    /\ net.handlers[g].pc = "check"
    /\ LET h == net.handlers[g]
       IN  net' = [net EXCEPT !.handlers[g] =
                      IF nodeIsKnow(net.knownNodes, h.AddrList[h.i])
                      THEN NextAddr(h)
                      ELSE [h EXCEPT !.pc = "load"]]
    /\ UNCHANGED <<db, bc, miner, reindexer, entropy, adds, last, reader>>

\* ... append reads the slice ...
addToKnownNodesLoad(g) ==
    /\ Serving
    /\ net.handlers[g].pc = "load"
    /\ net' = [net EXCEPT !.handlers[g].pc = "store",
                          !.handlers[g].nodes = net.knownNodes]
    /\ UNCHANGED <<db, bc, miner, reindexer, entropy, adds, last, reader>>

\* ... and the slice with the address appended is assigned to knownNodes
addToKnownNodesStore(g) ==
    /\ Serving
    /\ net.handlers[g].pc = "store"
    /\ LET h == net.handlers[g]
       IN  net' = [net EXCEPT !.knownNodes = Append(h.nodes, h.AddrList[h.i]),
                             !.handlers[g] = NextAddr(h)]
    /\ UNCHANGED <<db, bc, miner, reindexer, entropy, adds, last, reader>>

\* the requestBlocks that ends handleAddr
handleAddrRequestBlocks(g) ==
    /\ Serving
    /\ net.handlers[g].pc = "request"
    /\ net' = requestBlocks([net EXCEPT !.handlers[g] = HandlerFree])
    /\ UNCHANGED <<db, bc, miner, reindexer, entropy, adds, last, reader>>

\* a handler with an empty body: the request is read and dropped
Dropped(request) ==
    /\ Serving
    /\ net.accepted < MaxConns
    /\ net' = Accepted(net, request)
    /\ last' = Called(request.command, "ok")
    /\ UNCHANGED <<db, bc, miner, reindexer, entropy, adds, reader>>

handleInv(from) == Dropped(Received(CommandInv, from, 0, <<>>))

handleGetBlocks(from) == Dropped(Received(CommandGetBlocks, from, 0, <<>>))

handleGetData(from) == Dropped(Received(CommandGetData, from, 0, <<>>))

handleTx(from) == Dropped(Received(CommandTx, from, 0, <<>>))

\* the version requests among those sent that no peer has handled yet
UnhandledVersions(n) ==
    {i \in (n.handled + 1)..Len(n.sent) : n.sent[i].command = CommandVersion}

\* a peer, which runs this program, handles the next version request sent
\* to it, and that ends its process (handleVersion above); every other
\* command the node sends meets an empty handler; no handler answers
PeerHandles ==
    /\ UnhandledVersions(net) # {}
    /\ LET i == CHOOSE j \in UnhandledVersions(net) :
                    \A k \in UnhandledVersions(net) : j <= k
       IN  net' = [net EXCEPT !.handled = i, !.down = @ \cup {net.sent[i].to}]
    /\ UNCHANGED <<db, bc, miner, reindexer, entropy, adds, last, reader>>

NetNext ==
    \/ \E now \in Times : CreateBlockchain(1, now)
    \/ StartServer
    \/ \E request \in VersionRequests : handleVersion(request)
    \/ \E g \in 1..MaxHandlers, request \in AddrRequests : handleAddr(g, request)
    \/ \E g \in 1..MaxHandlers : addToKnownNodesCheck(g)
    \/ \E g \in 1..MaxHandlers : addToKnownNodesLoad(g)
    \/ \E g \in 1..MaxHandlers : addToKnownNodesStore(g)
    \/ \E g \in 1..MaxHandlers : handleAddrRequestBlocks(g)
    \/ Serving /\ \E block \in BlockRequests(Blocks) : handleBlock(BootstrapNode, block)
    \/ handleInv(BootstrapNode)
    \/ handleGetBlocks(BootstrapNode)
    \/ handleGetData(BootstrapNode)
    \/ handleTx(BootstrapNode)
    \/ reindexer.pc = "called" /\ ReindexDrop
    \/ ReindexFind
    \/ ReindexPut
    \/ PeerHandles

\* the server under the requests of its peers
SpecNet == Init /\ [][NetNext]_vars


(***************************************************************************)
(* The version handshake.                                                  *)
(***************************************************************************)
\* the server accepts a version request and handleVersion runs
VersionStep ==
    /\ Serving
    /\ net'.accepted = net.accepted + 1
    /\ net'.last.command = CommandVersion

\* C21: on a version request carrying height h from address a, the node
\* sends getblcoks to a if its own best height is below h, its own version
\* to a if its own best height is above h, and nothing if they are equal;
\* in every case a is among the known peers afterwards.
VersionHandshake ==
    [][VersionStep =>
        LET a == net'.last.AddrFrom
            h == net'.last.BestHeight
            own == GetBestHeight(Blocks)
        IN  /\ nodeIsKnow(net'.knownNodes, a)
            /\ (own < h) =>
                   net'.sent = Append(net.sent, Request(a, CommandGetBlocks, 0, Nil))
            /\ (own > h) =>
                   net'.sent = Append(net.sent, Request(a, CommandVersion, own, Nil))
            /\ (own = h) => net'.sent = net.sent]_vars


PassedToAdd(h) ==
    IF h.pc = "free" THEN {}
    ELSE {h.AddrList[k] :
             k \in 1..(IF h.pc = "request" THEN Len(h.AddrList) ELSE h.i - 1)}

\* C23: the handlers of concurrent connections exclude one another on
\* knownNodes and blocksInTransit: no peer is in the list twice, and a peer
\* that addToKnownNodes was called with (and that no failed Dial took out)
\* is in the list when the call has returned.
KnownNodesGuarded ==
    Serving =>
        /\ \A i, j \in 1..Len(net.knownNodes) :
               i # j => net.knownNodes[i] # net.knownNodes[j]
        /\ \A g \in 1..MaxHandlers :
               \A a \in PassedToAdd(net.handlers[g]) \ net.down :
                   nodeIsKnow(net.knownNodes, a)


(***************************************************************************)
(* Convergence of the peers.                                               *)
(***************************************************************************)
\* the steps that follow from a request already sent or accepted: the peer
\* handling what the node sent it, and the goroutines of the node running
\* on to their end
NetDelivered ==
    \/ PeerHandles
    \/ \E g \in 1..MaxHandlers : addToKnownNodesCheck(g)
    \/ \E g \in 1..MaxHandlers : addToKnownNodesLoad(g)
    \/ \E g \in 1..MaxHandlers : addToKnownNodesStore(g)
    \/ \E g \in 1..MaxHandlers : handleAddrRequestBlocks(g)
    \/ reindexer.pc = "called" /\ ReindexDrop
    \/ ReindexFind
    \/ ReindexPut

\* every request is eventually delivered and handled: none of these steps
\* is put off for ever.  Whether a peer sends a further request, and
\* whether a node that has ended is started again, is left open: the
\* server waits in Accept
SpecNetFair == SpecNet /\ WF_vars(NetDelivered)

\* the best height of the bootstrap node, above that of a new chain
PeerHeight == MaxHeight

\* the node has sent the bootstrap node its version, with a height below
\* the peer's
VersionExchanged ==
    \E i \in 1..Len(net.sent) :
        /\ net.sent[i].to = BootstrapNode
        /\ net.sent[i].command = CommandVersion
        /\ net.sent[i].BestHeight < PeerHeight

RequestedFrom(to, command) ==
    \E i \in 1..Len(net.sent) : net.sent[i].to = to /\ net.sent[i].command = command

\* C24: once node A, lower than its reachable peer B, has exchanged version
\* with B, and every request is delivered and handled and no block is
\* mined, A eventually has asked B for its block hashes and fetched the
\* blocks, and A's best height is B's.
PeersConverge ==
    VersionExchanged ~>
        /\ db.exists
        /\ RequestedFrom(BootstrapNode, CommandGetBlocks)
        /\ RequestedFrom(BootstrapNode, CommandGetData)
        /\ GetBestHeight(Blocks) = PeerHeight


(***************************************************************************)
(* Chain walks beside a writer.  The Update of MineBlock in two steps: its *)
(* closure, which puts the block and the tip key in the write transaction  *)
(* and assigns bc.tip, and the commit that follows the closure's return.   *)
(* A View sees what is committed.                                          *)
(***************************************************************************)
MineBlockUpdateClosure ==
    /\ bc.open
    /\ miner.pc = "sealed"
    /\ bc' = [bc EXCEPT !.tip = MineBlockUpdate(Blocks, miner.block).tip]
    /\ miner' = [miner EXCEPT !.pc = "updating"]
    /\ UNCHANGED <<db, reindexer, entropy, adds, last, net, reader>>

MineBlockUpdateCommitted ==
    /\ bc.open
    /\ miner.pc = "updating"
    /\ db' = [db EXCEPT !.buckets[blocksBucket] = MineBlockUpdate(@, miner.block).kv]
    /\ miner' = MinerIdle
    /\ last' = [op |-> "MineBlock", st |-> "ok", block |-> miner.block, call |-> NoCall]
    /\ UNCHANGED <<bc, reindexer, entropy, adds, net, reader>>

\* Iterator: the walk starts at bc.tip, read without a lock
Iterator ==
    /\ bc.open
    /\ reader.pc = "idle"
    /\ reader.walks < MaxWalks
    /\ reader' = [pc |-> "walking", currentHash |-> bc.tip, start |-> bc.tip,
                  walks |-> reader.walks + 1]
    /\ UNCHANGED <<db, bc, miner, reindexer, entropy, adds, last, net>>

\* Next: a View reads the block under currentHash; DeserializeBlock panics
\* when there is none; the walk ends at a block without PrevBlockHash
BlockchainIteratorNext ==
    /\ bc.open
    /\ reader.pc = "walking"
    /\ IF ~HasKey(Blocks, reader.currentHash)
       THEN /\ Panicked
            /\ reader' = ReaderIdle(reader.walks)
            /\ last' = Called("Next", "panic")
       ELSE /\ reader' = IF Len(DeserializeBlock(Blocks[reader.currentHash]).PrevBlockHash) = 0
                         THEN ReaderIdle(reader.walks)
                         ELSE [reader EXCEPT !.currentHash =
                                  DeserializeBlock(Blocks[reader.currentHash]).PrevBlockHash]
            /\ last' = [op |-> "Next", st |-> "ok",
                        block |-> DeserializeBlock(Blocks[reader.currentHash]),
                        call |-> NoCall]
            /\ UNCHANGED <<bc, miner, reindexer>>
    /\ UNCHANGED <<db, entropy, adds, net>>

ReadersNext ==
    \/ \E now \in Times : CreateBlockchain(1, now)
    \/ OpenBlockchain
    \/ bc.open /\ \E now \in Times :
           MineBlockBegin(<<NewCoinbaseTX(miningAddress, <<"data", entropy + 1>>)>>, now)
    \/ MineBlockUpdateClosure
    \/ MineBlockUpdateCommitted
    \/ bc.open /\ miner.pc # "updating" /\ \E block \in BlockRequests(Blocks) : AddBlock(block)
    \/ Iterator
    \/ BlockchainIteratorNext

\* chain walks while blocks are mined
SpecReaders == Init /\ [][ReadersNext]_vars

IteratorStep == reader.pc = "idle" /\ reader'.pc = "walking"

\* C25: a walk that starts while MineBlock writes starts at the committed
\* tip, the one before the commit or the one after it, and the block it
\* starts from is readable in its snapshot: never at the hash of a block
\* whose write transaction has not committed.
ReadersSeeCommitted ==
    [][IteratorStep =>
        /\ reader'.start = TipHash(Blocks)
        /\ HasKey(Blocks, reader'.start)]_vars


(***************************************************************************)
(* The id of a transaction.                                                *)
(***************************************************************************)
\* C26: the transaction NewUTXOTransaction has built and signed, and every
\* transaction on the chain (the coinbase transactions of NewCoinbaseTX
\* among them), has as ID the hash of its serialization with the ID
\* cleared: tx.ID = tx.Hash().
TransactionIdIsHash ==
    /\ SendDone => last.call.tx.ID = Hash(last.call.tx)
    /\ (bc.open /\ Iterate(Blocks, bc.tip).st = "ok") =>
           \A tx \in ChainTransactions(Blocks, bc.tip) : tx.ID = Hash(tx)


(***************************************************************************)
(* The concatenations of Sign and of key generation.                       *)
(***************************************************************************)
\* C27: the signature Sign writes holds r and s at the full width each, and
\* Verify's cut in the middle gives back the pair that was signed; the
\* public key newKeyPair writes holds X and Y at the full width each, and
\* the cut in the middle gives back the point, whatever leading zero bytes
\* the numbers have.
ConcatenationRoundTrip ==
    /\ SendDone =>
           \A i \in 1..Len(last.call.tx.VIn) :
               LET signature == last.call.tx.VIn[i].Signature
               IN  /\ signature[3] = ScalarBytes
                   /\ signature[4] = ScalarBytes
                   /\ SplitSignature(signature) =
                          EcdsaSign(last.call.k,
                                    DataToSign(last.call.tx, i, AllPrevTXs))
    /\ (last.op = "newKeyPair") =>
           LET pubKey == last.call.ret[1]
           IN  /\ pubKey[3] = ScalarBytes
               /\ pubKey[4] = ScalarBytes
               /\ SplitPublicKey(pubKey) = <<"point", last.call.k>>


(***************************************************************************)
(* MineBlock beside AddBlock.                                              *)
(***************************************************************************)
\* C28: whatever AddBlock calls commit between the read transaction of a
\* MineBlock call and its write transaction, no step lowers the height of
\* the block the persisted tip names, and the block MineBlock commits has
\* as PrevBlockHash the tip of the moment of the commit.
BestHeightNeverRegresses ==
    [][(db.exists /\ db'.exists) =>
          /\ GetBestHeight(Blocks') >= GetBestHeight(Blocks)
          /\ (MineBlockCommitStep => (last'.block.PrevBlockHash = TipHash(Blocks)))]_vars


(***************************************************************************)
(* Double spending.                                                        *)
(***************************************************************************)
\* C29: on the chain MineBlock has built, from the tip to the genesis
\* block, no output is named by two inputs, be they of two transactions or
\* of one: MineBlock rejects a transaction that names an output an input on
\* the chain names already.
NoDoubleSpendMined ==
    (bc.open /\ Iterate(Blocks, bc.tip).st = "ok") =>
        LET txs == WalkTransactions(Blocks, bc.tip)
            spends == {n \in 1..Len(txs) : ~IsCoinbase(txs[n])}
        IN  \A n, m \in spends :
                \A i \in 1..Len(txs[n].VIn), j \in 1..Len(txs[m].VIn) :
                    (/\ txs[n].VIn[i].TxID = txs[m].VIn[j].TxID
                     /\ txs[n].VIn[i].VOut = txs[m].VIn[j].VOut)
                        => (n = m /\ i = j)

====
